---- MODULE Spec2Model ----
(***************************************************************************)
(* Model of the SEMFE heat-transfer solver (Solver.py, main.py) and of the *)
(* chimney mesh generator (make_chimney_semfe.py).                         *)
(*                                                                         *)
(* Numbers.  The program computes in IEEE double precision.  The model     *)
(* computes in exact rational arithmetic extended with the three IEEE      *)
(* special values the code can produce: a value is a pair <<n, d>> with    *)
(* d >= 0 and gcd(n, d) = 1; d = 0 gives +inf (<<1,0>>), -inf (<<-1,0>>)   *)
(* and NaN (<<0,0>>).  Rounding error and signed zeros are not modelled.   *)
(*                                                                         *)
(* Indices.  Node ids, element ids and local node indices are 0-based as   *)
(* in the source.  An array indexed by such an id is a function on 0..n-1; *)
(* a list the code only iterates over (boundary conditions, triplets,      *)
(* edge lists) is a sequence.                                              *)
(***************************************************************************)
EXTENDS Integers, Sequences, FiniteSets, TLC

VARIABLES
    pc,        \* position of the running script / call
    nodes,     \* node coordinates: 0..N-1 -> <<x, y>>, x and y values
    elems,     \* element connectivity: 0..M-1 -> (0..2 -> node id)
    k,         \* thermal conductivity
    Ke,        \* result of the last element_stiffness_triangle call
    trip,      \* the (rows, cols, data) triplet lists of assemble_global
    e,         \* loop index of the running for-loop
    K,         \* the caller's global matrix object
    f,         \* the caller's load vector object
    Kw,        \* the callee's working matrix (K.tolil(copy=True))
    fw,        \* the callee's working vector (f.copy(), or f itself)
    bcs,       \* boundary conditions: [heat_flux, convection, temperature]
    K0,        \* the caller's matrix when the running call was entered
    f0,        \* the caller's vector when the running call was entered
    err,       \* the exception that ended the call, or "none"
    u,         \* the solved field
    grid,      \* <<nx, ny>> of generate_chimney_mesh
    bnd,       \* boundary edge list of find_boundary_edges
    groups,    \* the five edge groups of classify_edges / cleanup
    calls,     \* history: the Solver functions main has called, in order
    raw        \* history: the mesh and edge groups handed to cleanup

vars == <<pc, nodes, elems, k, Ke, trip, e, K, f, Kw, fw, bcs, K0, f0, err, u,
          grid, bnd, groups, calls, raw>>

Null == "null"

(***************************************************************************)
(* Bounds of the model.                                                    *)
(***************************************************************************)
MaxCoord == 2      \* triangle corner coordinates range over 0..MaxCoord
MaxK == 2          \* conductivities range over 1..MaxK
MaxElems == 2      \* meshes handed to assemble_global have 1..MaxElems elements
MaxVal == 2        \* prescribed temperatures range over 1..MaxVal
MaxBCs == 2        \* flux and convection lists have 0..MaxBCs entries
MaxGrid == 4       \* chimney grids have 1..MaxGrid cells in x and in y

(***************************************************************************)
(* Extended rational arithmetic (the float operations of the source).      *)
(***************************************************************************)
Abs(n) == IF n < 0 THEN -n ELSE n

Sign(n) == IF n < 0 THEN -1 ELSE IF n > 0 THEN 1 ELSE 0

RECURSIVE GCD(_, _)
GCD(a, b) == IF b = 0 THEN a ELSE GCD(b, a % b)

\* The value n/d in lowest terms; d = 0 gives inf, -inf or NaN.
Norm(n, d) ==
    IF d = 0 THEN <<Sign(n), 0>>
    ELSE LET g == GCD(Abs(n), Abs(d))
         IN  <<(Sign(d) * n) \div g, Abs(d) \div g>>

R(n) == <<n, 1>>
Zero == <<0, 1>>
One == <<1, 1>>
NaN == <<0, 0>>
Inf == <<1, 0>>

IsNaN(a) == a = NaN
IsFinite(a) == a[2] > 0
IsZero(a) == a = Zero
IsPos(a) == a[1] > 0
IsNeg(a) == a[1] < 0

\* a * b, cancelling across the fractions before multiplying.
RMul(a, b) ==
    IF a[2] = 0 \/ b[2] = 0 THEN Norm(a[1] * b[1], 0)
    ELSE LET g == GCD(Abs(a[1]), b[2])
             h == GCD(Abs(b[1]), a[2])
         IN  <<(a[1] \div g) * (b[1] \div h), (a[2] \div h) * (b[2] \div g)>>

\* a + b over the least common denominator.
RAdd(a, b) ==
    IF a[2] = 0 /\ b[2] = 0
    THEN (IF a = b THEN a ELSE NaN)
    ELSE IF a[2] = 0 THEN a
    ELSE IF b[2] = 0 THEN b
    ELSE LET g == GCD(a[2], b[2])
         IN  Norm(a[1] * (b[2] \div g) + b[1] * (a[2] \div g), (a[2] \div g) * b[2])

RNeg(a) == <<-a[1], a[2]>>
RSub(a, b) == RAdd(a, RNeg(b))
RInv(a) == Norm(a[2], a[1])
RDiv(a, b) == RMul(a, RInv(b))
RAbs(a) == <<Abs(a[1]), a[2]>>

\* The value x itself.  Comparing a function built by [i \in S |-> ...] makes
\* TLC tabulate it once instead of re-evaluating its body at every
\* application.
Tabulated(x) == IF x = x THEN x ELSE x

\* Sum of a sequence of values, left to right.
RECURSIVE RSumSeq(_)
RSumSeq(s) == IF s = <<>> THEN Zero ELSE RAdd(RSumSeq(SubSeq(s, 1, Len(s) - 1)), s[Len(s)])

(***************************************************************************)
(* Solver.py: element_stiffness_triangle                                   *)
(***************************************************************************)
\* A Python list [a, b, c] (index 0..2).
Arr3(a, b, c) == [i \in 0..2 |-> IF i = 0 THEN a ELSE IF i = 1 THEN b ELSE c]

\* area = 0.5 * det([[1,x1,y1],[1,x2,y2],[1,x3,y3]]): the signed area.
Area(coords) ==
    LET x1 == coords[0][1]  y1 == coords[0][2]
        x2 == coords[1][1]  y2 == coords[1][2]
        x3 == coords[2][1]  y3 == coords[2][2]
        det == RAdd(RSub(RSub(RMul(x2, y3), RMul(y2, x3)),
                         RMul(x1, RSub(y3, y2))),
                    RMul(y1, RSub(x3, x2)))
    IN  RMul(<<1, 2>>, det)

\* B = (1/(2*area)) * [[y2-y3, y3-y1, y1-y2], [x3-x2, x1-x3, x2-x1]]
BScaled(c, r0, r1) ==
    [r \in 0..1 |-> [j \in 0..2 |-> RMul(c, IF r = 0 THEN r0[j] ELSE r1[j])]]

BMatrix(coords, area) ==
    LET x1 == coords[0][1]  y1 == coords[0][2]
        x2 == coords[1][1]  y2 == coords[1][2]
        x3 == coords[2][1]  y3 == coords[2][2]
    IN  BScaled(RDiv(One, RMul(R(2), area)),
                Arr3(RSub(y2, y3), RSub(y3, y1), RSub(y1, y2)),
                Arr3(RSub(x3, x2), RSub(x1, x3), RSub(x2, x1)))

\* B.T @ B
BtB(B) == [i \in 0..2 |-> [j \in 0..2 |->
              RAdd(RMul(B[0][i], B[0][j]), RMul(B[1][i], B[1][j]))]]

\* The factor of B.T @ B in line 37: k * area, with the signed area.
KeScale(kk, area) == RMul(kk, area)

\* scalar * matrix
Scaled(c, M) == [i \in 0..2 |-> [j \in 0..2 |-> RMul(c, M[i][j])]]

KeOfArea(coords, kk, area) ==
    Scaled(KeScale(kk, area), BtB(BMatrix(coords, area)))

\* Ke = k * area * (B.T @ B); the function has no raise statement and
\* numpy's float division by zero yields inf (a warning, not an exception).
element_stiffness_triangle(coords, kk) == KeOfArea(coords, kk, Area(coords))

(***************************************************************************)
(* Specification SpecKe: one call of element_stiffness_triangle on three   *)
(* corner coordinates of the integer grid and a conductivity k > 0.        *)
(***************************************************************************)
GridPoints == {<<R(x), R(y)>> : x \in 0..MaxCoord, y \in 0..MaxCoord}

InitKe ==
    /\ pc = "ke_call"
    /\ \E a \in GridPoints, b \in GridPoints, c \in GridPoints :
           nodes = Arr3(a, b, c)
    /\ k \in {R(n) : n \in 1..MaxK}
    /\ Ke = Null /\ err = "none"
    /\ elems = Null /\ trip = Null /\ e = Null /\ K = Null /\ f = Null
    /\ Kw = Null /\ fw = Null /\ bcs = Null /\ K0 = Null /\ f0 = Null
    /\ u = Null /\ grid = Null /\ bnd = Null /\ groups = Null /\ calls = Null
    /\ raw = Null

KeCall ==
    /\ pc = "ke_call"
    /\ Ke' = element_stiffness_triangle(nodes, k)
    /\ pc' = "ke_returned"
    /\ UNCHANGED <<nodes, elems, k, trip, e, K, f, Kw, fw, bcs, K0, f0, err, u,
                   grid, bnd, groups, calls, raw>>

NextKe == KeCall

SpecKe == InitKe /\ [][NextKe]_vars

\* k * |area| * B^T B, with B as the code computes it.
KeAbsOfArea(coords, kk, area) ==
    Scaled(RMul(kk, RAbs(area)), BtB(BMatrix(coords, area)))

KeAbsArea(coords, kk) == KeAbsOfArea(coords, kk, Area(coords))

\* The same three corners listed in the reversed order (2, 1, 0).
Reversed(coords) == Arr3(coords[2], coords[1], coords[0])

\* C3: a zero-area triangle (collinear or duplicate corners) makes
\* element_stiffness_triangle fail with DegenerateElement instead of
\* returning a matrix.
C3_DegenerateFails ==
    (pc = "ke_returned" /\ IsZero(Area(nodes)))
        => (err = "DegenerateElement" /\ Ke = Null)

\* C4: for a non-degenerate triangle in either winding and k > 0 the result
\* is k * |area| * B^T B, its diagonal is strictly positive, and reversing
\* the node order gives the same matrix up to the row/column permutation.
C4_AbsAreaStiffness ==
    (pc = "ke_returned" /\ ~IsZero(Area(nodes)))
        => /\ Ke = KeAbsArea(nodes, k)
           /\ \A i \in 0..2 : IsPos(Ke[i][i])
           /\ \A i, j \in 0..2 :
                  element_stiffness_triangle(Reversed(nodes), k)[2 - i][2 - j] = Ke[i][j]

(***************************************************************************)
(* Solver.py: assemble_global                                              *)
(***************************************************************************)
\* len() of a list modelled as a function on 0..n-1.
Size(a) == Cardinality(DOMAIN a)

\* nodes[conn, :2]
CoordsOf(nds, conn) == [i \in 0..2 |-> nds[conn[i]]]

\* The 9 triplets (i_global, j_global, Ke[i_local, j_local]) the two nested
\* loops of lines 59-63 append, in loop order.
ElementTriplets(conn, ke) ==
    [n \in 1..9 |-> LET i == (n - 1) \div 3
                        j == (n - 1) % 3
                    IN  <<conn[i], conn[j], ke[i][j]>>]

\* Values of the triplets at position (i, j), in list order.
EntryValues(t, i, j) ==
    LET At(x) == x[1] = i /\ x[2] = j
        sel == SelectSeq(t, At)
    IN  [n \in 1..Len(sel) |-> sel[n][3]]

\* Mutant: a later triplet overwrites an earlier one at the same position.
CombineDuplicatesLastWins(vals) == IF vals = <<>> THEN Zero ELSE vals[Len(vals)]

\* What one entry of the finished matrix holds, given the values of the
\* triplets naming it: coo -> csr sums duplicates; no triplet leaves 0.
CombineDuplicates(vals) == RSumSeq(vals)

\* sp.coo_matrix((data, (rows, cols)), shape=(n, n)).tocsr()
CooToCsr(t, n) ==
    [i \in 0..n-1 |-> [j \in 0..n-1 |-> CombineDuplicates(EntryValues(t, i, j))]]

(***************************************************************************)
(* Specification SpecAsm: one call of assemble_global on a mesh over four  *)
(* nodes A(0,0), B(4,0), C(8,0), D(4,3).  A, B, C are collinear, so the    *)
(* element pool holds degenerate elements as well as both windings of the  *)
(* triangles ABD, BCD and ACD.                                             *)
(***************************************************************************)
FixtureNodes ==
    [n \in 0..3 |-> IF n = 0 THEN <<R(0), R(0)>>
                    ELSE IF n = 1 THEN <<R(4), R(0)>>
                    ELSE IF n = 2 THEN <<R(8), R(0)>>
                    ELSE <<R(4), R(3)>>]

\* Elements with three distinct node ids, in both windings, each listed
\* from its smallest node id (the rotations of a triple are left out).
ElemPool ==
    {Arr3(a, b, c) : a \in 0..3, b \in 0..3, c \in 0..3} \ 
    {t \in {Arr3(a, b, c) : a \in 0..3, b \in 0..3, c \in 0..3} :
        t[0] >= t[1] \/ t[0] >= t[2] \/ t[1] = t[2]}

Meshes(pool, maxLen) ==
    UNION {[0..m-1 -> pool] : m \in 1..maxLen}

InitAsm ==
    /\ pc = "asm_loop"
    /\ nodes = FixtureNodes
    /\ elems \in Meshes(ElemPool, MaxElems)
    /\ k \in {R(n) : n \in 1..MaxK}
    /\ e = 0 /\ trip = <<>> /\ Ke = Null /\ K = Null /\ err = "none"
    /\ f = Null /\ Kw = Null /\ fw = Null /\ bcs = Null /\ K0 = Null
    /\ f0 = Null /\ u = Null /\ grid = Null /\ bnd = Null /\ groups = Null
    /\ calls = Null
    /\ raw = Null

\* One iteration of the element loop, lines 55-63.
AsmElement ==
    /\ pc = "asm_loop"
    /\ e < Size(elems)
    /\ LET conn == elems[e]
           ke == element_stiffness_triangle(CoordsOf(nodes, conn), k)
       IN  /\ Ke' = ke
           /\ trip' = trip \o ElementTriplets(conn, Ke')
    /\ e' = e + 1
    /\ UNCHANGED <<pc, nodes, elems, k, K, f, Kw, fw, bcs, K0, f0, err, u,
                   grid, bnd, groups, calls, raw>>

\* Line 64 and the return.
AsmFinish ==
    /\ pc = "asm_loop"
    /\ e = Size(elems)
    /\ K' = CooToCsr(trip, Size(nodes))
    /\ pc' = "asm_returned"
    /\ UNCHANGED <<nodes, elems, k, Ke, trip, e, f, Kw, fw, bcs, K0, f0, err, u,
                   grid, bnd, groups, calls, raw>>

NextAsm == AsmElement \/ AsmFinish

SpecAsm == InitAsm /\ [][NextAsm]_vars

NonDegenerate(nds, els) ==
    \A m \in DOMAIN els : ~IsZero(Area(CoordsOf(nds, els[m])))

\* Sum of a function's values over the index list 0..n-1.
RECURSIVE RSumTo(_, _)
RSumTo(g, n) == IF n = 0 THEN Zero ELSE RAdd(RSumTo(g, n - 1), g[n - 1])

IsSymmetric(M) == \A i \in DOMAIN M : \A j \in DOMAIN M : M[i][j] = M[j][i]

RowsSumToZero(M) == \A i \in DOMAIN M : IsZero(RSumTo(M[i], Size(M)))

\* The contribution of element m to global entry (i, j): its local entries
\* at the local positions of i and j.
Contribution(nds, els, kk, m, i, j) ==
    LET ke == element_stiffness_triangle(CoordsOf(nds, els[m]), kk)
        c == [n \in 0..8 |-> IF els[m][n \div 3] = i /\ els[m][n % 3] = j
                             THEN ke[n \div 3][n % 3] ELSE Zero]
    IN  RSumTo(c, 9)

SumOfContributions(nds, els, kk, i, j) ==
    RSumTo([m \in DOMAIN els |-> Contribution(nds, els, kk, m, i, j)], Size(els))

\* C5: for a mesh of non-degenerate triangles and k > 0 the assembled K is
\* symmetric, each row sums to 0, each entry is the sum of the local entries
\* of all elements containing both its nodes, and each local Ke has rows
\* summing to 0.
C5_AssembledConservation ==
    (pc = "asm_returned" /\ NonDegenerate(nodes, elems))
        => /\ IsSymmetric(K)
           /\ RowsSumToZero(K)
           /\ \A i \in DOMAIN K : \A j \in DOMAIN K :
                  K[i][j] = SumOfContributions(nodes, elems, k, i, j)
           /\ \A m \in DOMAIN elems :
                  RowsSumToZero(element_stiffness_triangle(CoordsOf(nodes, elems[m]), k))

\* C5 witness: a finished assembly of two non-degenerate elements of which
\* both contribute to one entry.
C5_Witness ==
    /\ pc = "asm_returned" /\ NonDegenerate(nodes, elems) /\ Size(elems) >= 2
    /\ \E i \in DOMAIN K : \E j \in DOMAIN K :
           /\ i # j
           /\ Len(EntryValues(trip, i, j)) >= 2
           /\ ~IsZero(K[i][j])

(***************************************************************************)
(* Solver.py: apply_dirichlet                                              *)
(***************************************************************************)
\* K[node, :] = 0
ZeroRow(M, node) ==
    [i \in DOMAIN M |-> [j \in DOMAIN M |-> IF i = node THEN Zero ELSE M[i][j]]]

\* K[:, node] = 0
ZeroCol(M, node) ==
    [i \in DOMAIN M |-> [j \in DOMAIN M |-> IF j = node THEN Zero ELSE M[i][j]]]

\* K[node, node] = 1
SetDiagOne(M, node) ==
    [M EXCEPT ![node] = [M[node] EXCEPT ![node] = One]]

\* Mutant: line 83 (K[:, node] = 0) left out.
DirichletMatrixKeepsColumn(M, node) == SetDiagOne(ZeroRow(M, node), node)

\* Mutant: line 82 (K[node, :] = 0) left out.
DirichletMatrixKeepsRow(M, node) == SetDiagOne(ZeroCol(M, node), node)

\* The matrix after lines 82-84.
DirichletMatrix(M, node) == SetDiagOne(ZeroCol(ZeroRow(M, node), node), node)

\* The vector after lines 80, 81 and 85: f -= K[:, node] * val; f[node] = val.
DirichletVector(M, v, node, val) ==
    [i \in DOMAIN v |-> IF i = node THEN val
                        ELSE RSub(v[i], RMul(M[i][node], val))]

\* The whole loop of lines 79-85 over the list bc of <<node, value>>.
RECURSIVE DirichletLoop(_, _, _)
DirichletLoop(M, v, bc) ==
    IF bc = <<>> THEN <<M, v>>
    ELSE DirichletLoop(DirichletMatrix(M, bc[1][1]),
                       DirichletVector(M, v, bc[1][1], bc[1][2]),
                       Tail(bc))

(***************************************************************************)
(* Specification SpecDir: one call of apply_dirichlet on a 3 x 3 system.   *)
(* K ranges over matrices with diagonal 2 and off-diagonal entries 0 or    *)
(* -1, symmetric or with one entry raised by 1; the boundary conditions    *)
(* are the lists of 1..3 pairs on distinct nodes.                          *)
(***************************************************************************)
DirNodes == 0..2

SymmetricInputs ==
    {[i \in DirNodes |-> [j \in DirNodes |->
          IF i = j THEN R(2)
          ELSE IF {i, j} = {0, 1} THEN a
          ELSE IF {i, j} = {0, 2} THEN b
          ELSE c]] : a \in {Zero, R(-1)}, b \in {Zero, R(-1)}, c \in {Zero, R(-1)}}

\* M with 1 added to entry (p, q).
Raised(M, p, q) == [M EXCEPT ![p] = [M[p] EXCEPT ![q] = RAdd(M[p][q], One)]]

\* The entries raised: one above and one below the diagonal.
OffDiagonal == {<<0, 1>>, <<2, 0>>}

MatrixInputs ==
    SymmetricInputs \cup
    {Raised(M, pq[1], pq[2]) : M \in SymmetricInputs, pq \in OffDiagonal}

VectorInputs == {[i \in DirNodes |-> Zero], [i \in DirNodes |-> R(i + 1)]}

TempValues == {R(n) : n \in 1..MaxVal}

\* Lists of <<node, value>> on distinct nodes.
DirichletLists(ids) ==
    {bc \in UNION {[1..m -> ids \X TempValues] : m \in 1..Cardinality(ids)} :
        \A p, q \in DOMAIN bc : p # q => bc[p][1] # bc[q][1]}

InitDir ==
    /\ pc = "dir_call"
    /\ K \in MatrixInputs
    /\ f \in VectorInputs
    /\ \E t \in DirichletLists(DirNodes) :
           bcs = [heat_flux |-> <<>>, convection |-> <<>>, temperature |-> t]
    /\ Kw = Null /\ fw = Null /\ K0 = Null /\ f0 = Null /\ e = Null
    /\ err = "none"
    /\ nodes = Null /\ elems = Null /\ k = Null /\ Ke = Null /\ trip = Null
    /\ u = Null /\ grid = Null /\ bnd = Null /\ groups = Null /\ calls = Null
    /\ raw = Null

\* Lines 76-77: the call works on copies.
DirEnter ==
    /\ pc = "dir_call"
    /\ Kw' = K /\ fw' = f
    /\ K0' = K /\ f0' = f
    /\ e' = 1
    /\ pc' = "dir_loop"
    /\ UNCHANGED <<nodes, elems, k, Ke, trip, K, f, bcs, err, u, grid, bnd, groups, calls, raw>>

\* One iteration of the loop, lines 79-85.
DirStep ==
    /\ pc = "dir_loop"
    /\ e <= Len(bcs.temperature)
    /\ LET node == bcs.temperature[e][1]
           val == bcs.temperature[e][2]
       IN  /\ fw' = DirichletVector(Kw, fw, node, val)
           /\ Kw' = DirichletMatrix(Kw, node)
    /\ e' = e + 1
    /\ UNCHANGED <<pc, nodes, elems, k, Ke, trip, K, f, bcs, K0, f0, err, u,
                   grid, bnd, groups, calls, raw>>

\* Line 87, and the caller's K, f = apply_dirichlet(...).
DirReturn ==
    /\ pc = "dir_loop"
    /\ e > Len(bcs.temperature)
    /\ K' = Kw /\ f' = fw
    /\ pc' = "dir_returned"
    /\ UNCHANGED <<nodes, elems, k, Ke, trip, e, Kw, fw, bcs, K0, f0, err, u,
                   grid, bnd, groups, calls, raw>>

NextDir == DirEnter \/ DirStep \/ DirReturn

SpecDir == InitDir /\ [][NextDir]_vars

\* The nodes a Dirichlet list constrains.
Constrained(bc) == {bc[p][1] : p \in DOMAIN bc}

\* Row n and column n of M are zero except M[n][n] = 1.
UnitRowCol(M, n) ==
    /\ M[n][n] = One
    /\ \A j \in DOMAIN M : j # n => (IsZero(M[n][j]) /\ IsZero(M[j][n]))

\* (M x)[i]
RowTimes(M, x, i) == RSumTo([j \in DOMAIN M |-> RMul(M[i][j], x[j])], Size(M))

IsSolution(M, x, rhs) == \A i \in DOMAIN M : RowTimes(M, x, i) = rhs[i]

\* Candidate solution vectors of the 3 x 3 system.
Candidates == [DirNodes -> {R(n) : n \in 0..MaxVal}]

\* C1: after apply_dirichlet on BCs on distinct nodes every constrained node
\* n has a unit row and column and f[n] = v, so every solution has u[n] = v;
\* the unconstrained sub-matrix is unchanged, a symmetric K stays symmetric,
\* and with every node constrained K is the identity and u the values.
C1_DirichletPostcondition ==
    (pc = "dir_returned") =>
        LET bc == bcs.temperature
        IN  /\ \A p \in DOMAIN bc :
                   UnitRowCol(K, bc[p][1]) /\ f[bc[p][1]] = bc[p][2]
            /\ \A x \in Candidates :
                   IsSolution(K, x, f) =>
                       \A p \in DOMAIN bc : x[bc[p][1]] = bc[p][2]
            /\ \A i, j \in DOMAIN K \ Constrained(bc) : K[i][j] = K0[i][j]
            /\ IsSymmetric(K0) => IsSymmetric(K)
            /\ (Constrained(bc) = DOMAIN K) =>
                   /\ \A i, j \in DOMAIN K : K[i][j] = IF i = j THEN One ELSE Zero
                   /\ \E x \in Candidates :
                          /\ IsSolution(K, x, f)
                          /\ \A p \in DOMAIN bc : x[bc[p][1]] = bc[p][2]

\* C1 witness: two coupled nodes of a symmetric system were constrained and
\* a third, coupled to both, stayed free.
C1_Witness ==
    /\ pc = "dir_returned"
    /\ IsSymmetric(K0)
    /\ Len(bcs.temperature) = 2
    /\ ~IsZero(K0[bcs.temperature[1][1]][bcs.temperature[2][1]])
    /\ \E i \in DOMAIN K \ Constrained(bcs.temperature) :
           \A n \in Constrained(bcs.temperature) : ~IsZero(K0[i][n])

\* C1 witness of the fully constrained case.
C1_WitnessAll ==
    /\ pc = "dir_returned"
    /\ Constrained(bcs.temperature) = DOMAIN K
    /\ ~IsSymmetric(K0)

\* The list bc in the reversed order.
Reverse(bc) == [p \in 1..Len(bc) |-> bc[Len(bc) + 1 - p]]

\* The prescribed value of constrained node n.
ValueAt(bc, n) == bc[CHOOSE p \in DOMAIN bc : bc[p][1] = n][2]

\* Simultaneous elimination: every correction is read from the original
\* matrix M before any row or column is zeroed.
Simultaneous(M, v, bc) ==
    <<[i \in DOMAIN M |-> [j \in DOMAIN M |->
          IF i \in Constrained(bc) \/ j \in Constrained(bc)
          THEN (IF i = j THEN One ELSE Zero)
          ELSE M[i][j]]],
      [i \in DOMAIN v |->
          IF i \in Constrained(bc) THEN ValueAt(bc, i)
          ELSE RSub(v[i], RSumTo([p \in 0..Len(bc)-1 |->
                                     RMul(M[i][bc[p + 1][1]], bc[p + 1][2])],
                                 Len(bc)))]>>

\* Two Dirichlet BCs on directly coupled nodes of a symmetric system.
CoupledPair ==
    /\ Len(bcs.temperature) = 2
    /\ IsSymmetric(K0)
    /\ ~IsZero(K0[bcs.temperature[1][1]][bcs.temperature[2][1]])

\* C9 as stated: with two directly coupled constrained nodes, processing the
\* BCs in the order (a, b) and in the order (b, a) yields different f, hence
\* a result different from simultaneous elimination.
C9_OrderDependent ==
    (pc = "dir_returned" /\ CoupledPair)
        => /\ f # DirichletLoop(K0, f0, Reverse(bcs.temperature))[2]
           /\ <<K, f>> # Simultaneous(K0, f0, bcs.temperature)

\* C9 amended: for BCs on distinct nodes, coupled or not, sequential
\* elimination gives the same K and f in either order, equal to those of
\* simultaneous elimination from the original K.
C9_OrderIndependent ==
    (pc = "dir_returned")
        => /\ <<K, f>> = DirichletLoop(K0, f0, Reverse(bcs.temperature))
           /\ <<K, f>> = Simultaneous(K0, f0, bcs.temperature)

\* C9 witness: two coupled nodes with different values were constrained and
\* the correction changed the free node's load.
C9_Witness ==
    /\ pc = "dir_returned"
    /\ CoupledPair
    /\ bcs.temperature[1][2] # bcs.temperature[2][2]
    /\ \E i \in DOMAIN f \ Constrained(bcs.temperature) : f[i] # f0[i]

(***************************************************************************)
(* Solver.py: apply_heat_flux and apply_convection                         *)
(***************************************************************************)
\* The integer square root of a perfect square.
ISqrt(n) == CHOOSE r \in 0..n : r * r = n

\* np.hypot(dx, dy).  The model is exact, so it covers only edges whose
\* length is rational; every edge of the fixture meshes is.
Hypot(dx, dy) ==
    LET s == RAdd(RMul(dx, dx), RMul(dy, dy))
    IN  <<ISqrt(s[1]), ISqrt(s[2])>>

\* The dict of lines 111-115 and 134-138: local edge id -> local node pair.
EdgeIds == {1, 2, 3}

EdgeNodes(edge_id) ==
    IF edge_id = 1 THEN <<0, 1>> ELSE IF edge_id = 2 THEN <<1, 2>> ELSE <<2, 0>>

\* The exception a boundary condition raises before anything is changed:
\* elems[elem_id] is evaluated first, then the dict lookup.
LookupError(els, elem_id, edge_id) ==
    IF elem_id \notin DOMAIN els THEN "IndexError"
    ELSE IF edge_id \notin EdgeIds THEN "KeyError"
    ELSE "none"

\* L of lines 116-119 and 143-149.
EdgeLength(nds, conn, edge_id) ==
    LET p1 == nds[conn[EdgeNodes(edge_id)[1]]]
        p2 == nds[conn[EdgeNodes(edge_id)[2]]]
    IN  Hypot(RSub(p2[1], p1[1]), RSub(p2[2], p1[2]))

\* v[n] += x
AddAt(v, n, x) == [v EXCEPT ![n] = RAdd(v[n], x)]

\* M[i, j] += x
AddAt2(M, i, j, x) == [M EXCEPT ![i] = [M[i] EXCEPT ![j] = RAdd(M[i][j], x)]]

\* Mutant: the flux is added at the first edge node only.
FluxVectorOneNode(v, nds, els, bc) ==
    LET conn == els[bc[1]]
        fe == RMul(RMul(bc[3], EdgeLength(nds, conn, bc[2])), <<1, 2>>)
    IN  AddAt(v, conn[EdgeNodes(bc[2])[1]], fe)

\* Lines 109-121 for one bc = <<elem_id, edge_id, q>>:
\* f[conn[edge_nodes]] += q * L * [0.5, 0.5]
FluxVector(v, nds, els, bc) ==
    LET conn == els[bc[1]]
        fe == RMul(RMul(bc[3], EdgeLength(nds, conn, bc[2])), <<1, 2>>)
    IN  AddAt(AddAt(v, conn[EdgeNodes(bc[2])[1]], fe), conn[EdgeNodes(bc[2])[2]], fe)

\* Lines 152-166 for one bc = <<elem_id, edge_id, h, Tinf>>: the matrix.
ConvectionMatrix(M, nds, els, bc) ==
    LET conn == els[bc[1]]
        a == conn[EdgeNodes(bc[2])[1]]
        b == conn[EdgeNodes(bc[2])[2]]
        c == RDiv(RMul(bc[3], EdgeLength(nds, conn, bc[2])), R(6))
    IN  AddAt2(AddAt2(AddAt2(AddAt2(M, a, a, RMul(c, R(2))),
                             a, b, c),
                      b, a, c),
               b, b, RMul(c, R(2)))

\* Lines 156-163 for one bc: the vector.
ConvectionVector(v, nds, els, bc) ==
    LET conn == els[bc[1]]
        fe == RDiv(RMul(RMul(bc[3], bc[4]), EdgeLength(nds, conn, bc[2])), R(2))
    IN  AddAt(AddAt(v, conn[EdgeNodes(bc[2])[1]], fe), conn[EdgeNodes(bc[2])[2]], fe)

(***************************************************************************)
(* Specification SpecBC: one call of apply_heat_flux or of                 *)
(* apply_convection on the system assembled from the two-element mesh      *)
(* ABD, BCD of the fixture (k = 1).  A BC names element 0..2 (2 is out of  *)
(* range) and local edge 1..4 (4 is no edge id).                           *)
(***************************************************************************)
TwoTriangles == [m \in 0..1 |-> IF m = 0 THEN Arr3(0, 1, 3) ELSE Arr3(1, 2, 3)]

\* assemble_global as one evaluation: the triplets of every element, then
\* line 64.
RECURSIVE AllTriplets(_, _, _, _)
AllTriplets(nds, els, kk, m) ==
    IF m = 0 THEN <<>>
    ELSE AllTriplets(nds, els, kk, m - 1) \o
         ElementTriplets(els[m - 1],
                         element_stiffness_triangle(CoordsOf(nds, els[m - 1]), kk))

assemble_global(nds, els, kk) ==
    CooToCsr(AllTriplets(nds, els, kk, Size(els)), Size(nds))

\* <<elem_id, edge_id>> of the BC entries: every valid pair, one entry
\* with a bad edge id and one with a bad element id.
EdgeRefs ==
    ((0..1) \X EdgeIds) \cup {<<0, 4>>, <<2, 1>>}

FluxEntries == {<<r[1], r[2], q>> : r \in EdgeRefs, q \in {Zero, R(2)}}

ConvEntries == {<<r[1], r[2], h, R(5)>> : r \in EdgeRefs, h \in {Zero, R(3)}}

Lists(S, maxLen) == UNION {[1..m -> S] : m \in 0..maxLen}

InitBC ==
    /\ nodes = FixtureNodes
    /\ elems = TwoTriangles
    /\ k = One
    /\ K = assemble_global(FixtureNodes, TwoTriangles, One)
    /\ f \in {[n \in 0..3 |-> Zero], [n \in 0..3 |-> R(n + 1)]}
    /\ \/ /\ pc = "hf_call"
          /\ \E l \in Lists(FluxEntries, MaxBCs) :
                 bcs = [heat_flux |-> l, convection |-> <<>>, temperature |-> <<>>]
       \/ /\ pc = "cv_call"
          /\ \E l \in Lists(ConvEntries, MaxBCs) :
                 bcs = [heat_flux |-> <<>>, convection |-> l, temperature |-> <<>>]
    /\ Kw = Null /\ fw = Null /\ K0 = Null /\ f0 = Null /\ e = Null
    /\ err = "none" /\ Ke = Null /\ trip = Null
    /\ u = Null /\ grid = Null /\ bnd = Null /\ groups = Null /\ calls = Null
    /\ raw = Null

\* apply_heat_flux is entered: it works on the caller's f itself.
HfEnter ==
    /\ pc = "hf_call"
    /\ K0' = K /\ f0' = f
    /\ e' = 1
    /\ pc' = "hf_loop"
    /\ UNCHANGED <<nodes, elems, k, Ke, trip, K, f, Kw, fw, bcs, err, u,
                   grid, bnd, groups, calls, raw>>

\* One iteration of the loop of lines 108-121.
HfStep ==
    /\ pc = "hf_loop"
    /\ e <= Len(bcs.heat_flux)
    /\ LET bc == bcs.heat_flux[e]
           ex == LookupError(elems, bc[1], bc[2])
       IN  IF ex # "none"
           THEN /\ err' = ex
                /\ pc' = "hf_raised"
                /\ UNCHANGED <<f, e>>
           ELSE /\ f' = FluxVector(f, nodes, elems, bc)
                /\ e' = e + 1
                /\ UNCHANGED <<pc, err>>
    /\ UNCHANGED <<nodes, elems, k, Ke, trip, K, Kw, fw, bcs, K0, f0, u,
                   grid, bnd, groups, calls, raw>>

\* Line 122: return f (the caller's own array).
HfReturn ==
    /\ pc = "hf_loop"
    /\ e > Len(bcs.heat_flux)
    /\ pc' = "hf_returned"
    /\ UNCHANGED <<nodes, elems, k, Ke, trip, e, K, f, Kw, fw, bcs, K0, f0, err, u,
                   grid, bnd, groups, calls, raw>>

\* apply_convection is entered: lines 131-132 copy K and f.
CvEnter ==
    /\ pc = "cv_call"
    /\ K0' = K /\ f0' = f
    /\ Kw' = K /\ fw' = f
    /\ e' = 1
    /\ pc' = "cv_loop"
    /\ UNCHANGED <<nodes, elems, k, Ke, trip, K, f, bcs, err, u, grid, bnd, groups, calls, raw>>

\* One iteration of the loop of lines 139-166.
CvStep ==
    /\ pc = "cv_loop"
    /\ e <= Len(bcs.convection)
    /\ LET bc == bcs.convection[e]
           ex == LookupError(elems, bc[1], bc[2])
       IN  IF ex # "none"
           THEN /\ err' = ex
                /\ pc' = "cv_raised"
                /\ UNCHANGED <<Kw, fw, e>>
           ELSE /\ Kw' = ConvectionMatrix(Kw, nodes, elems, bc)
                /\ fw' = ConvectionVector(fw, nodes, elems, bc)
                /\ e' = e + 1
                /\ UNCHANGED <<pc, err>>
    /\ UNCHANGED <<nodes, elems, k, Ke, trip, K, f, bcs, K0, f0, u,
                   grid, bnd, groups, calls, raw>>

\* Line 167, and the caller's K, f = apply_convection(...).
CvReturn ==
    /\ pc = "cv_loop"
    /\ e > Len(bcs.convection)
    /\ K' = Kw /\ f' = fw
    /\ pc' = "cv_returned"
    /\ UNCHANGED <<nodes, elems, k, Ke, trip, e, Kw, fw, bcs, K0, f0, err, u,
                   grid, bnd, groups, calls, raw>>

NextBC == HfEnter \/ HfStep \/ HfReturn \/ CvEnter \/ CvStep \/ CvReturn

SpecBC == InitBC /\ [][NextBC]_vars

\* C2: when apply_heat_flux or apply_convection fails on a bad edge or
\* element id, the caller's K and f are exactly what they were before the
\* call, even when valid BCs precede the bad entry.
C2_FailureLeavesSystemUntouched ==
    (pc \in {"hf_raised", "cv_raised"}) => (K = K0 /\ f = f0)

\* The two global nodes of the edge a BC names.
EdgeOf(els, bc) ==
    {els[bc[1]][EdgeNodes(bc[2])[1]], els[bc[1]][EdgeNodes(bc[2])[2]]}

\* What one flux BC does: q*L/2 added to f at the two edge nodes, nothing else.
FluxEffect ==
    (pc = "hf_loop" /\ e' = e + 1) =>
        LET bc == bcs.heat_flux[e]
            add == RDiv(RMul(bc[3], EdgeLength(nodes, elems[bc[1]], bc[2])), R(2))
        IN  /\ bc[2] \in EdgeIds
            /\ \A n \in DOMAIN f :
                   f'[n] = IF n \in EdgeOf(elems, bc) THEN RAdd(f[n], add) ELSE f[n]
            /\ IsZero(bc[3]) => f' = f

\* What one convection BC does: (h*L/6)*[[2,1],[1,2]] added to the four K
\* entries of the two edge nodes, h*Tinf*L/2 to f at both, nothing else.
ConvectionEffect ==
    (pc = "cv_loop" /\ e' = e + 1) =>
        LET bc == bcs.convection[e]
            L == EdgeLength(nodes, elems[bc[1]], bc[2])
            c == RDiv(RMul(bc[3], L), R(6))
            add == RDiv(RMul(RMul(bc[3], bc[4]), L), R(2))
            edge == EdgeOf(elems, bc)
        IN  /\ bc[2] \in EdgeIds
            /\ \A i, j \in DOMAIN Kw :
                   Kw'[i][j] = IF i \in edge /\ j \in edge
                               THEN RAdd(Kw[i][j], IF i = j THEN RMul(R(2), c) ELSE c)
                               ELSE Kw[i][j]
            /\ \A n \in DOMAIN fw :
                   fw'[n] = IF n \in edge THEN RAdd(fw[n], add) ELSE fw[n]
            /\ IsSymmetric(Kw) => IsSymmetric(Kw')
            /\ IsZero(bc[3]) => (Kw' = Kw /\ fw' = fw)

\* C8: a flux BC changes only f at the two nodes of its edge and never K; a
\* convection BC changes only the four K entries and the two f entries of
\* its edge; q = 0 (h = 0) changes nothing.
C8_AppliersTouchOnlyTheirEdge ==
    [][/\ FluxEffect
       /\ ConvectionEffect
       /\ (pc \in {"hf_call", "hf_loop"}) => K' = K]_vars

\* C8 witness: two convection BCs with h > 0 on different edges were applied
\* and an entry off both edges kept its value.
C8_Witness ==
    /\ pc = "cv_returned"
    /\ Len(bcs.convection) = 2
    /\ \A p \in 1..2 : ~IsZero(bcs.convection[p][3])
    /\ EdgeOf(elems, bcs.convection[1]) # EdgeOf(elems, bcs.convection[2])
    /\ K # K0
    /\ \E i, j \in DOMAIN K : ~IsZero(K0[i][j]) /\ K[i][j] = K0[i][j]

\* C8 witness of the flux part: two flux BCs with q > 0 were applied.
C8_WitnessFlux ==
    /\ pc = "hf_returned"
    /\ Len(bcs.heat_flux) = 2
    /\ \A p \in 1..2 : ~IsZero(bcs.heat_flux[p][3])
    /\ f # f0

(***************************************************************************)
(* Solver.py: the appliers and solve_system as whole calls; main.py: main  *)
(***************************************************************************)
\* apply_heat_flux: the loop of lines 108-121 on the caller's f.  The result
\* is the exception raised (or "none") and f as the call leaves it.
RECURSIVE apply_heat_flux(_, _, _, _)
apply_heat_flux(v, nds, els, bc) ==
    IF bc = <<>> THEN [err |-> "none", f |-> v]
    ELSE IF LookupError(els, bc[1][1], bc[1][2]) # "none"
    THEN [err |-> LookupError(els, bc[1][1], bc[1][2]), f |-> v]
    ELSE apply_heat_flux(FluxVector(v, nds, els, bc[1]), nds, els, Tail(bc))

\* apply_convection: the loop of lines 139-166 on the copies of K and f.
RECURSIVE ConvectionLoop(_, _, _, _, _)
ConvectionLoop(M, v, nds, els, bc) ==
    IF bc = <<>> THEN [err |-> "none", K |-> M, f |-> v]
    ELSE IF LookupError(els, bc[1][1], bc[1][2]) # "none"
    THEN [err |-> LookupError(els, bc[1][1], bc[1][2]), K |-> M, f |-> v]
    ELSE ConvectionLoop(ConvectionMatrix(M, nds, els, bc[1]),
                        ConvectionVector(v, nds, els, bc[1]), nds, els, Tail(bc))

\* apply_dirichlet(K, f, bc_nodes, bc_values) with the two lists zipped.
apply_dirichlet(M, v, bc) == DirichletLoop(M, v, bc)

\* The augmented matrix [M | rhs].
Augmented(M, rhs) ==
    [i \in DOMAIN M |-> [j \in 0..Size(M) |-> IF j < Size(M) THEN M[i][j] ELSE rhs[i]]]

\* Gauss-Jordan elimination of columns c..n-1 of the augmented matrix A.
RECURSIVE GaussJordan(_, _, _)
GaussJordan(A, c, n) ==
    IF c = n THEN [ok |-> TRUE, A |-> A]
    ELSE LET cand == {r \in c..n-1 : ~IsZero(A[r][c])}
         IN  IF cand = {} THEN [ok |-> FALSE, A |-> A]
             ELSE LET p == CHOOSE r \in cand : \A q \in cand : r <= q
                      rowc == [j \in 0..n |-> RDiv(A[p][j], A[p][c])]
                      other(i) == IF i = p THEN A[c] ELSE A[i]
                  IN  GaussJordan(
                          Tabulated([i \in 0..n-1 |->
                              IF i = c THEN rowc
                              ELSE [j \in 0..n |->
                                       RSub(other(i)[j], RMul(other(i)[c], rowc[j]))]]),
                          c + 1, n)

\* spla.spsolve(K, f): the solution of a regular system; for an exactly
\* singular matrix scipy warns and returns a vector of NaN.
solve_system(M, rhs) ==
    LET r == GaussJordan(Augmented(M, rhs), 0, Size(M))
    IN  [i \in DOMAIN M |-> IF r.ok THEN r.A[i][Size(M)] ELSE NaN]

\* Mutant: Dirichlet elimination is applied before the flux and convection
\* terms.
MainOrderDirichletFirst ==
    <<"assemble_global", "apply_dirichlet", "apply_heat_flux", "apply_convection",
      "solve_system">>

\* The order in which main calls the Solver functions (steps 2 to 6).
MainOrder ==
    <<"assemble_global", "apply_heat_flux", "apply_convection", "apply_dirichlet",
      "solve_system">>

\* The step after step s of main.
StepAfter(s) ==
    LET i == CHOOSE n \in 1..Len(MainOrder) : MainOrder[n] = s
    IN  IF i = Len(MainOrder) THEN "done" ELSE MainOrder[i + 1]

(***************************************************************************)
(* Specification SpecMain: a run of main on the two-element fixture mesh   *)
(* (k = 1) with at most one flux BC, at most one convection BC (each on    *)
(* an edge of the mesh, or with the bad edge id 4) and up to two           *)
(* Dirichlet BCs on distinct nodes.                                        *)
(***************************************************************************)
MainFlux == {<<r[1], r[2], R(2)>> : r \in EdgeRefs \ {<<2, 1>>}}

MainConv == {<<r[1], r[2], R(3), R(5)>> : r \in EdgeRefs \ {<<2, 1>>}}

MainTemperature ==
    {<<>>} \cup {bc \in DirichletLists(DOMAIN FixtureNodes) : Len(bc) <= 2}

\* The state after line 20: what read_input_file returned.
InitMain ==
    /\ pc = MainOrder[1]
    /\ nodes = FixtureNodes
    /\ elems = TwoTriangles
    /\ k = One
    /\ \E hf \in Lists(MainFlux, 1), cv \in Lists(MainConv, 1), t \in MainTemperature :
           bcs = [heat_flux |-> hf, convection |-> cv, temperature |-> t]
    /\ K = Null /\ f = Null /\ u = Null /\ err = "none" /\ calls = <<>>
    /\ Kw = Null /\ fw = Null /\ K0 = Null /\ f0 = Null /\ e = Null
    /\ Ke = Null /\ trip = Null /\ grid = Null /\ bnd = Null /\ groups = Null
    /\ raw = Null

\* Lines 23-24.
MainAssemble ==
    /\ pc = "assemble_global"
    /\ K' = assemble_global(nodes, elems, k)
    /\ f' = [n \in DOMAIN nodes |-> Zero]
    /\ calls' = Append(calls, "assemble_global")
    /\ pc' = StepAfter("assemble_global")
    /\ UNCHANGED <<nodes, elems, k, Ke, trip, e, Kw, fw, bcs, K0, f0, err, u,
                   grid, bnd, groups, raw>>

\* Lines 28-29: skipped for an empty list; an exception ends main.
MainHeatFlux ==
    /\ pc = "apply_heat_flux"
    /\ IF bcs.heat_flux = <<>>
       THEN /\ pc' = StepAfter("apply_heat_flux")
            /\ UNCHANGED <<f, err, calls, raw>>
       ELSE LET r == apply_heat_flux(f, nodes, elems, bcs.heat_flux)
            IN  /\ f' = r.f
                /\ err' = r.err
                /\ calls' = Append(calls, "apply_heat_flux")
                /\ pc' = IF r.err = "none" THEN StepAfter("apply_heat_flux")
                         ELSE "aborted"
    /\ UNCHANGED <<nodes, elems, k, Ke, trip, e, K, Kw, fw, bcs, K0, f0, u,
                   grid, bnd, groups, raw>>

\* Lines 33-34.
MainConvection ==
    /\ pc = "apply_convection"
    /\ IF bcs.convection = <<>>
       THEN /\ pc' = StepAfter("apply_convection")
            /\ UNCHANGED <<K, f, err, calls, raw>>
       ELSE LET r == ConvectionLoop(K, f, nodes, elems, bcs.convection)
            IN  /\ K' = IF r.err = "none" THEN r.K ELSE K
                /\ f' = IF r.err = "none" THEN r.f ELSE f
                /\ err' = r.err
                /\ calls' = Append(calls, "apply_convection")
                /\ pc' = IF r.err = "none" THEN StepAfter("apply_convection")
                         ELSE "aborted"
    /\ UNCHANGED <<nodes, elems, k, Ke, trip, e, Kw, fw, bcs, K0, f0, u,
                   grid, bnd, groups, raw>>

\* Lines 38-41.
MainDirichlet ==
    /\ pc = "apply_dirichlet"
    /\ IF bcs.temperature = <<>>
       THEN UNCHANGED <<K, f, calls, raw>>
       ELSE LET r == apply_dirichlet(K, f, bcs.temperature)
            IN  /\ K' = r[1]
                /\ f' = r[2]
                /\ calls' = Append(calls, "apply_dirichlet")
    /\ pc' = StepAfter("apply_dirichlet")
    /\ UNCHANGED <<nodes, elems, k, Ke, trip, e, Kw, fw, bcs, K0, f0, err, u,
                   grid, bnd, groups, raw>>

\* Line 44.
MainSolve ==
    /\ pc = "solve_system"
    /\ u' = solve_system(K, f)
    /\ calls' = Append(calls, "solve_system")
    /\ pc' = StepAfter("solve_system")
    /\ UNCHANGED <<nodes, elems, k, Ke, trip, e, K, f, Kw, fw, bcs, K0, f0, err,
                   grid, bnd, groups, raw>>

NextMain ==
    MainAssemble \/ MainHeatFlux \/ MainConvection \/ MainDirichlet \/ MainSolve

SpecMain == InitMain /\ [][NextMain]_vars

\* The place of a Solver function in the pipeline assemble -> heat flux ->
\* convection -> Dirichlet -> solve.
Rank(name) ==
    CASE name = "assemble_global" -> 1
      [] name = "apply_heat_flux" -> 2
      [] name = "apply_convection" -> 3
      [] name = "apply_dirichlet" -> 4
      [] name = "solve_system" -> 5

\* C10: main calls assemble, heat flux, convection, Dirichlet, solve in this
\* order, each at most once; the system handed to solve_system has a unit
\* row and column and f[n] = v at every Dirichlet node n, also at the
\* endpoints of flux and convection edges, so the solution has u[n] = v.
C10_PipelineOrder ==
    /\ \A p, q \in DOMAIN calls : p < q => Rank(calls[p]) < Rank(calls[q])
    /\ (pc \in {"solve_system", "done"}) =>
           /\ calls # <<>> /\ calls[1] = "assemble_global"
           /\ (bcs.temperature # <<>>) =>
                  \E p \in DOMAIN calls : calls[p] = "apply_dirichlet"
           /\ \A p \in DOMAIN bcs.temperature :
                  /\ UnitRowCol(K, bcs.temperature[p][1])
                  /\ f[bcs.temperature[p][1]] = bcs.temperature[p][2]
    /\ (pc = "done") =>
           /\ calls[Len(calls)] = "solve_system"
           /\ \A p \in DOMAIN bcs.temperature :
                  u[bcs.temperature[p][1]] = bcs.temperature[p][2]

\* C10 witness: main finished a run in which a flux BC and a convection BC
\* each lie on an edge with a Dirichlet-constrained endpoint.
C10_Witness ==
    /\ pc = "done"
    /\ Len(calls) = 5
    /\ \E n \in Constrained(bcs.temperature) :
           /\ n \in EdgeOf(elems, bcs.heat_flux[1])
           /\ n \in EdgeOf(elems, bcs.convection[1])

(***************************************************************************)
(* make_chimney_semfe.py                                                   *)
(***************************************************************************)
OUTER_W == <<4, 5>>      \* 0.8
OUTER_H == <<3, 5>>      \* 0.6
HOLE_X1 == <<1, 5>>      \* 0.2
HOLE_X2 == <<3, 5>>      \* 0.6
HOLE_Y1 == <<1, 5>>      \* 0.2
HOLE_Y2 == <<2, 5>>      \* 0.4

\* a < b for finite values.
RLess(a, b) == a[1] * b[2] < b[1] * a[2]

\* abs(a - b) < tol with tol = 1e-10: for d = |a - b| = n/m this is
\* n * 10^10 < m, that is n <= (m - 1) div 10^10, the division taken in two
\* steps of 10^5.
WithinTol(a, b) ==
    LET d == RAbs(RSub(a, b))
    IN  d[1] <= ((d[2] - 1) \div 100000) \div 100000

\* nid(i, j), line 61.
nid(nx, i, j) == j * (nx + 1) + i

\* Line 72: the centre of cell (i, j) lies strictly inside the hole.
InHole(nx, ny, i, j) ==
    LET xc == RMul(RAdd(R(i), <<1, 2>>), RDiv(OUTER_W, R(nx)))
        yc == RMul(RAdd(R(j), <<1, 2>>), RDiv(OUTER_H, R(ny)))
    IN  /\ RLess(HOLE_X1, xc) /\ RLess(xc, HOLE_X2)
        /\ RLess(HOLE_Y1, yc) /\ RLess(yc, HOLE_Y2)

\* Lines 52-57: the nodes, row by row.
ChimneyNodes(nx, ny) ==
    [n \in 0..(nx + 1) * (ny + 1) - 1 |->
        <<RMul(R(n % (nx + 1)), RDiv(OUTER_W, R(nx))),
          RMul(R(n \div (nx + 1)), RDiv(OUTER_H, R(ny)))>>]

\* The cells the loops of lines 65-73 keep, in loop order; cell c is
\* (i, j) = (c mod nx, c div nx).
KeptCells(nx, ny) ==
    LET Keep(c) == ~InHole(nx, ny, c % nx, c \div nx)
    IN  SelectSeq([c \in 1..nx * ny |-> c - 1], Keep)

\* Lines 76-83: the two triangles (n1,n2,n4), (n2,n3,n4) of each kept cell.
ChimneyElems(nx, ny) ==
    LET kept == KeptCells(nx, ny)
    IN  [m \in 0..2 * Len(kept) - 1 |->
            LET c == kept[(m \div 2) + 1]
                i == c % nx
                j == c \div nx
                n1 == nid(nx, i, j)
                n2 == nid(nx, i + 1, j)
                n3 == nid(nx, i + 1, j + 1)
                n4 == nid(nx, i, j + 1)
            IN  IF m % 2 = 0 THEN Arr3(n1, n2, n4) ELSE Arr3(n2, n3, n4)]

Min(a, b) == IF a < b THEN a ELSE b
Max(a, b) == IF a < b THEN b ELSE a

\* Lines 99-108: every (key, owner) the loops append to edge_map, as
\* <<min, max, e_idx, local>>, in loop order.  Local edge 1 is (n1, n2),
\* 2 is (n2, n3), 3 is (n3, n1).
EdgeOccurrences(els) ==
    [n \in 1..3 * Size(els) |->
        LET m == (n - 1) \div 3
            loc == ((n - 1) % 3) + 1
            a == els[m][loc - 1]
            b == els[m][loc % 3]
        IN  <<Min(a, b), Max(a, b), m, loc>>]

\* Mutant: an edge is taken as boundary whenever it has an owner.
IsBoundaryCountAny(n) == n >= 1

\* Line 112: len(owners) == 1.
IsBoundaryCount(n) == n = 1

\* len(edge_map[key]) for the key of occurrence t.
OwnersRecorded(occ, t) ==
    Cardinality({n \in DOMAIN occ : occ[n][1] = t[1] /\ occ[n][2] = t[2]})

\* Keys in dict order: an occurrence is listed where its key came first.
FirstOfKey(occ, n) ==
    \A q \in 1..n-1 : ~(occ[q][1] = occ[n][1] /\ occ[q][2] = occ[n][2])

\* find_boundary_edges: lines 110-116 over the keys of edge_map in insertion
\* order, each with its first owner.
find_boundary_edges(els) ==
    LET occ == Tabulated(EdgeOccurrences(els))
        firsts == SelectSeq([n \in 1..Len(occ) |-> n], LAMBDA n : FirstOfKey(occ, n))
        Keep(n) == IsBoundaryCount(OwnersRecorded(occ, occ[n]))
        kept == SelectSeq(firsts, Keep)
    IN  [n \in 1..Len(kept) |-> occ[kept[n]]]

GroupNames == {"bottom", "right_ext", "top_ext", "left_ext", "inner"}

\* The if/elif chain of lines 142-151 for one edge.
GroupOf(nds, t) ==
    LET x1 == nds[t[1]][1]  y1 == nds[t[1]][2]
        x2 == nds[t[2]][1]  y2 == nds[t[2]][2]
    IN  IF WithinTol(y1, Zero) /\ WithinTol(y2, Zero) THEN "bottom"
        ELSE IF WithinTol(x1, OUTER_W) /\ WithinTol(x2, OUTER_W) THEN "right_ext"
        ELSE IF WithinTol(y1, OUTER_H) /\ WithinTol(y2, OUTER_H) THEN "top_ext"
        ELSE IF WithinTol(x1, Zero) /\ WithinTol(x2, Zero) THEN "left_ext"
        ELSE "inner"

\* classify_edges: the five lists, each in the order of bnd.
classify_edges(nds, edges) ==
    [g \in GroupNames |-> LET In(t) == GroupOf(nds, t) = g
                          IN  SelectSeq(edges, In)]

\* Lines 166-170: the sorted node ids some element uses.
Used(els) == {els[m][i] : m \in DOMAIN els, i \in 0..2}

\* Line 171: mapping[old] = position of old in sorted(used).
Mapping(els) ==
    [old \in Used(els) |-> Cardinality({x \in Used(els) : x < old})]

\* Mutant: the edge lists are returned without being renumbered.
RemapNothing(mapping, edges) == edges

\* remap, lines 180-182.
Remap(mapping, edges) ==
    [n \in 1..Len(edges) |->
        <<mapping[edges[n][1]], mapping[edges[n][2]], edges[n][3], edges[n][4]>>]

\* cleanup, lines 166-192.
cleanup(nds, els, grp) ==
    LET mapping == Mapping(els)
    IN  [nodes |-> [new \in 0..Cardinality(Used(els)) - 1 |->
                       nds[CHOOSE old \in Used(els) : mapping[old] = new]],
         elems |-> [m \in DOMAIN els |-> [i \in 0..2 |-> mapping[els[m][i]]]],
         groups |-> [g \in GroupNames |-> Remap(mapping, grp[g])]]

(***************************************************************************)
(* Specification SpecMesh: the script of lines 286-299 for every grid of   *)
(* 1..MaxGrid by 1..MaxGrid cells, and the same steps from                 *)
(* find_boundary_edges on for every mesh of 1..MaxElems triangles over     *)
(* the four corners of the outer rectangle.                                *)
(***************************************************************************)
CornerNodes ==
    [n \in 0..3 |-> IF n = 0 THEN <<Zero, Zero>>
                    ELSE IF n = 1 THEN <<OUTER_W, Zero>>
                    ELSE IF n = 2 THEN <<OUTER_W, OUTER_H>>
                    ELSE <<Zero, OUTER_H>>]

InitMesh ==
    /\ \/ /\ pc = "generate_chimney_mesh"
          /\ grid \in (1..MaxGrid) \X (1..MaxGrid)
          /\ nodes = Null /\ elems = Null
       \/ /\ pc = "find_boundary_edges"
          /\ grid = Null
          /\ nodes = CornerNodes
          /\ elems \in Meshes(ElemPool, MaxElems)
    /\ bnd = Null /\ groups = Null /\ raw = Null
    /\ k = Null /\ Ke = Null /\ trip = Null /\ e = Null /\ K = Null /\ f = Null
    /\ Kw = Null /\ fw = Null /\ bcs = Null /\ K0 = Null /\ f0 = Null
    /\ err = "none" /\ u = Null /\ calls = Null

\* Line 288.
Generate ==
    /\ pc = "generate_chimney_mesh"
    /\ nodes' = ChimneyNodes(grid[1], grid[2])
    /\ elems' = ChimneyElems(grid[1], grid[2])
    /\ pc' = "find_boundary_edges"
    /\ UNCHANGED <<k, Ke, trip, e, K, f, Kw, fw, bcs, K0, f0, err, u,
                   grid, bnd, groups, calls, raw>>

\* Line 291.
FindBoundary ==
    /\ pc = "find_boundary_edges"
    /\ bnd' = find_boundary_edges(elems)
    /\ pc' = "classify_edges"
    /\ UNCHANGED <<nodes, elems, k, Ke, trip, e, K, f, Kw, fw, bcs, K0, f0, err, u,
                   grid, groups, calls, raw>>

\* Line 294.
Classify ==
    /\ pc = "classify_edges"
    /\ groups' = classify_edges(nodes, bnd)
    /\ pc' = "cleanup"
    /\ UNCHANGED <<nodes, elems, k, Ke, trip, e, K, f, Kw, fw, bcs, K0, f0, err, u,
                   grid, bnd, calls, raw>>

\* Lines 297-299: cleanup, its results bound to the script's names.
Cleanup ==
    /\ pc = "cleanup"
    /\ raw' = [nodes |-> nodes, elems |-> elems, groups |-> groups]
    /\ LET r == cleanup(nodes, elems, groups)
       IN  /\ nodes' = r.nodes
           /\ elems' = r.elems
           /\ groups' = r.groups
    /\ pc' = "write_xml"
    /\ UNCHANGED <<k, Ke, trip, e, K, f, Kw, fw, bcs, K0, f0, err, u,
                   grid, bnd, calls>>

NextMesh == Generate \/ FindBoundary \/ Classify \/ Cleanup

SpecMesh == InitMesh /\ [][NextMesh]_vars

\* The elements of a sequence.
Range(sq) == {sq[n] : n \in DOMAIN sq}

\* The node ids of element m.
NodesOf(els, m) == {els[m][i] : i \in 0..2}

\* The elements owning the edge {a, b}.
Owners(els, a, b) == {m \in DOMAIN els : {a, b} \subseteq NodesOf(els, m)}

\* The two nodes of local edge loc: 1 is (0,1), 2 is (1,2), 3 is (2,0).
LocalEdgeNodes(conn, loc) ==
    IF loc = 1 THEN {conn[0], conn[1]}
    ELSE IF loc = 2 THEN {conn[1], conn[2]}
    ELSE {conn[2], conn[0]}

OnBottom(nds, a, b) == IsZero(nds[a][2]) /\ IsZero(nds[b][2])

\* C7: find_boundary_edges returns exactly the edges owned by exactly one
\* element, each once, with its owner and local edge id; classify_edges puts
\* each of them into exactly one group; an edge on y = 0 is in bottom only
\* if it has one owner.
C7_BoundaryPartition ==
    (pc = "cleanup") =>
        /\ {<<t[1], t[2]>> : t \in Range(bnd)} =
               {key \in (DOMAIN nodes) \X (DOMAIN nodes) :
                   key[1] < key[2] /\ Cardinality(Owners(elems, key[1], key[2])) = 1}
        /\ \A p, q \in DOMAIN bnd :
               p # q => <<bnd[p][1], bnd[p][2]>> # <<bnd[q][1], bnd[q][2]>>
        /\ \A t \in Range(bnd) :
               /\ Owners(elems, t[1], t[2]) = {t[3]}
               /\ t[4] \in 1..3
               /\ LocalEdgeNodes(elems[t[3]], t[4]) = {t[1], t[2]}
               /\ Cardinality({g \in GroupNames : t \in Range(groups[g])}) = 1
        /\ \A g \in GroupNames :
               /\ Range(groups[g]) \subseteq Range(bnd)
               /\ Cardinality(Range(groups[g])) = Len(groups[g])
        /\ \A t \in Range(groups["bottom"]) :
               /\ OnBottom(nodes, t[1], t[2])
               /\ Cardinality(Owners(elems, t[1], t[2])) = 1
        /\ \A t \in Range(bnd) :
               OnBottom(nodes, t[1], t[2]) => t \in Range(groups["bottom"])

\* C7 witness: an edge on y = 0 shared by two elements, beside boundary
\* edges of three groups.
C7_Witness ==
    /\ pc = "cleanup"
    /\ \E a, b \in DOMAIN nodes :
           /\ a < b /\ OnBottom(nodes, a, b)
           /\ Cardinality(Owners(elems, a, b)) = 2
    /\ Cardinality({g \in GroupNames : groups[g] # <<>>}) >= 3

\* The pairs <<old id, new id>> the renumbering of the elements shows.
Renumbering == {<<raw.elems[m][i], elems[m][i]>> : m \in DOMAIN elems, i \in 0..2}

\* C6: after cleanup the node ids used by elements are exactly 0..N-1, the
\* old-to-new mapping is strictly increasing and keeps each node's
\* coordinate, and every edge tuple of every group names the two nodes of
\* its local edge of its (relabeled) element.
C6_CleanupConsistent ==
    (pc = "write_xml") =>
        /\ UNION {NodesOf(elems, m) : m \in DOMAIN elems} = 0..Size(nodes) - 1
        /\ DOMAIN elems = DOMAIN raw.elems
        /\ \A r1, r2 \in Renumbering : (r1[1] < r2[1]) <=> (r1[2] < r2[2])
        /\ \A r \in Renumbering : nodes[r[2]] = raw.nodes[r[1]]
        /\ \A g \in GroupNames :
               /\ Len(groups[g]) = Len(raw.groups[g])
               /\ \A n \in DOMAIN groups[g] :
                      LET t == groups[g][n]
                          t0 == raw.groups[g][n]
                      IN  /\ t[3] = t0[3] /\ t[4] = t0[4]
                          /\ <<t0[1], t[1]>> \in Renumbering
                          /\ <<t0[2], t[2]>> \in Renumbering
                          /\ LocalEdgeNodes(elems[t[3]], t[4]) = {t[1], t[2]}

\* C6 witness: cleanup of a chimney mesh dropped the nodes inside the hole
\* and renumbered edges of the hole boundary.
C6_Witness ==
    /\ pc = "write_xml"
    /\ Size(raw.nodes) > 4
    /\ Size(nodes) < Size(raw.nodes)
    /\ \E n \in DOMAIN groups["inner"] :
           groups["inner"][n] # raw.groups["inner"][n]

====
